---------------------------- MODULE Spec2Model ----------------------------
(***************************************************************************)
(* A model of the name-match library: the name normalizer (cleanName,      *)
(* parseName, standardizeName, getNameVariations), the structural matcher  *)
(* (EnhancedMatcher), and the combined scorer (EnhancedNaturalMatcher).    *)
(*                                                                         *)
(* Strings are sequences of one-character strings.  A JavaScript value     *)
(* passed as a name is a record [type, val]: a string, null or undefined.  *)
(* Numbers are exact rationals [n, d] in lowest terms; 0/0 is NaN.         *)
(***************************************************************************)
EXTENDS Integers, Sequences, FiniteSets, TLC

(***************************************************************************)
(* JavaScript values                                                       *)
(***************************************************************************)
Str(s) == [type |-> "string", val |-> s]

Null == [type |-> "null", val |-> <<>>]

Undefined == [type |-> "undefined", val |-> <<>>]

\* !name : null, undefined and '' are falsy
Falsy(v) == v.type # "string" \/ v.val = <<>>

(***************************************************************************)
(* Numbers: exact rationals                                                *)
(***************************************************************************)
RECURSIVE Gcd(_, _)
Gcd(a, b) == IF b = 0 THEN a ELSE Gcd(b, a % b)

Rat(n, d) ==
  IF d = 0 THEN [n |-> 0, d |-> 0]
  ELSE LET g == Gcd(IF n < 0 THEN -n ELSE n, d)
       IN  [n |-> n \div g, d |-> d \div g]

NaN == [n |-> 0, d |-> 0]

IsNaN(x) == x.d = 0

Zero == Rat(0, 1)

One == Rat(1, 1)

\* comparisons with NaN are false, as in IEEE arithmetic
Geq(x, y) == ~IsNaN(x) /\ ~IsNaN(y) /\ x.n * y.d >= y.n * x.d

Leq(x, y) == Geq(y, x)

Add(x, y) == IF IsNaN(x) \/ IsNaN(y) THEN NaN ELSE Rat(x.n * y.d + y.n * x.d, x.d * y.d)

\* x / k for an integer k; 0 / 0 is NaN
DivInt(x, k) == IF IsNaN(x) \/ k = 0 THEN NaN ELSE Rat(x.n, x.d * k)

\* Math.max(x, y)
MathMax(x, y) == IF IsNaN(x) \/ IsNaN(y) THEN NaN ELSE IF Geq(x, y) THEN x ELSE y

\* parseFloat(x.toFixed(2)): the multiple of 0.01 nearest to x, the larger
\* of the two when x is half way between them
toFixed2(x) ==
  IF IsNaN(x) THEN NaN
  ELSE Rat((200 * x.n + x.d) \div (2 * x.d), 100)

(***************************************************************************)
(* Characters and string primitives                                        *)
(***************************************************************************)
UpperChars ==
  <<"A", "B", "C", "D", "E", "F", "G", "H", "I", "J", "K", "L", "M",
    "N", "O", "P", "Q", "R", "S", "T", "U", "V", "W", "X", "Y", "Z">>

LowerChars ==
  <<"a", "b", "c", "d", "e", "f", "g", "h", "i", "j", "k", "l", "m",
    "n", "o", "p", "q", "r", "s", "t", "u", "v", "w", "x", "y", "z">>

DigitChars == {"0", "1", "2", "3", "4", "5", "6", "7", "8", "9"}

Range(s) == {s[i] : i \in DOMAIN s}

\* \s
IsSpace(c) == c \in {" ", "\t", "\n"}

\* \w
IsWord(c) == c \in Range(UpperChars) \cup Range(LowerChars) \cup DigitChars \cup {"_"}

toLowerCaseChar(c) ==
  IF c \in Range(UpperChars)
  THEN LowerChars[CHOOSE i \in DOMAIN UpperChars : UpperChars[i] = c]
  ELSE c

toLowerCase(s) == [i \in DOMAIN s |-> toLowerCaseChar(s[i])]

\* .replace(/[^\w\s'-]/g, ' ')
ReplaceSpecial(s) ==
  [i \in DOMAIN s |->
     IF IsWord(s[i]) \/ IsSpace(s[i]) \/ s[i] \in {"'", "-"} THEN s[i] ELSE " "]

\* .replace(/\s+/g, ' ')
RECURSIVE CollapseSpaces(_)
CollapseSpaces(s) ==
  IF s = <<>> THEN <<>>
  ELSE IF IsSpace(Head(s))
       THEN IF Len(s) > 1 /\ IsSpace(s[2])
            THEN CollapseSpaces(Tail(s))
            ELSE <<" ">> \o CollapseSpaces(Tail(s))
       ELSE <<Head(s)>> \o CollapseSpaces(Tail(s))

RECURSIVE TrimStart(_)
TrimStart(s) ==
  IF s # <<>> /\ IsSpace(Head(s)) THEN TrimStart(Tail(s)) ELSE s

RECURSIVE TrimEnd(_)
TrimEnd(s) ==
  IF s # <<>> /\ IsSpace(s[Len(s)]) THEN TrimEnd(SubSeq(s, 1, Len(s) - 1)) ELSE s

\* String.prototype.trim
Trim(s) == TrimEnd(TrimStart(s))

\* String.prototype.split(sep) for a one-character separator:
\* '' splits to [''], 'a,b' to ['a', 'b'], ',a' to ['', 'a']
RECURSIVE SplitFrom(_, _, _)
SplitFrom(s, sep, cur) ==
  IF s = <<>> THEN <<cur>>
  ELSE IF Head(s) = sep
       THEN <<cur>> \o SplitFrom(Tail(s), sep, <<>>)
       ELSE SplitFrom(Tail(s), sep, Append(cur, Head(s)))

Split(s, sep) == SplitFrom(s, sep, <<>>)

\* Array.prototype.includes
Includes(arr, x) == \E i \in DOMAIN arr : arr[i] = x

\* Array.prototype.join(' ')
RECURSIVE JoinSpace(_)
JoinSpace(arr) ==
  IF arr = <<>> THEN <<>>
  ELSE IF Len(arr) = 1 THEN arr[1]
       ELSE arr[1] \o <<" ">> \o JoinSpace(Tail(arr))

\* [...new Set(arr)]: the first occurrence of each element, in order
RECURSIVE Unique(_, _)
Unique(arr, seen) ==
  IF arr = <<>> THEN <<>>
  ELSE IF Head(arr) \in seen
       THEN Unique(Tail(arr), seen)
       ELSE <<Head(arr)>> \o Unique(Tail(arr), seen \cup {Head(arr)})

\* part.replace(/\.$/, '')
StripTrailingPeriod(s) ==
  IF s # <<>> /\ s[Len(s)] = "." THEN SubSeq(s, 1, Len(s) - 1) ELSE s

(***************************************************************************)
(* Name normalizer: reference tables                                       *)
(***************************************************************************)
PREFIXES ==
  << <<"m", "r">>,
    <<"m", "r", "s">>,
    <<"m", "s">>,
    <<"m", "i", "s", "s">>,
    <<"d", "r">>,
    <<"p", "r", "o", "f">>,
    <<"r", "e", "v">>,
    <<"h", "o", "n">> >>

SUFFIXES ==
  << <<"j", "r">>,
    <<"s", "r">>,
    <<"i", "i">>,
    <<"i", "i", "i">>,
    <<"i", "v">>,
    <<"v">>,
    <<"m", "d">>,
    <<"p", "h", "d">>,
    <<"e", "s", "q">> >>

\* the nickname table, in the order of its keys: <<formal, nicknames>>
NAME_VARIATIONS ==
  <<
    << <<"w", "i", "l", "l", "i", "a", "m">>,
       << <<"w", "i", "l", "l">>, <<"b", "i", "l", "l">>, <<"b", "i", "l", "l", "y">>, <<"w", "i", "l", "l", "y">> >> >>,
    << <<"r", "o", "b", "e", "r", "t">>,
       << <<"r", "o", "b">>, <<"b", "o", "b">>, <<"b", "o", "b", "b", "y">> >> >>,
    << <<"r", "i", "c", "h", "a", "r", "d">>,
       << <<"r", "i", "c", "k">>, <<"d", "i", "c", "k">>, <<"r", "i", "c", "h", "i", "e">>, <<"r", "i", "c", "k", "y">> >> >>,
    << <<"m", "i", "c", "h", "a", "e", "l">>,
       << <<"m", "i", "k", "e">>, <<"m", "i", "k", "e", "y">>, <<"m", "i", "c", "k">> >> >>,
    << <<"j", "a", "m", "e", "s">>,
       << <<"j", "i", "m">>, <<"j", "i", "m", "m", "y">>, <<"j", "a", "m", "i", "e">> >> >>,
    << <<"j", "o", "s", "e", "p", "h">>,
       << <<"j", "o", "e">>, <<"j", "o", "e", "y">>, <<"j", "o">> >> >>,
    << <<"t", "h", "o", "m", "a", "s">>,
       << <<"t", "o", "m">>, <<"t", "o", "m", "m", "y">> >> >>,
    << <<"c", "h", "r", "i", "s", "t", "o", "p", "h", "e", "r">>,
       << <<"c", "h", "r", "i", "s">>, <<"t", "o", "p", "h", "e", "r">> >> >>,
    << <<"c", "h", "a", "r", "l", "e", "s">>,
       << <<"c", "h", "u", "c", "k">>, <<"c", "h", "a", "r", "l", "i", "e">>, <<"c", "h", "a", "s">> >> >>,
    << <<"d", "a", "n", "i", "e", "l">>,
       << <<"d", "a", "n">>, <<"d", "a", "n", "n", "y">> >> >>,
    << <<"m", "a", "t", "t", "h", "e", "w">>,
       << <<"m", "a", "t", "t">>, <<"m", "a", "t", "t", "y">> >> >>,
    << <<"a", "n", "t", "h", "o", "n", "y">>,
       << <<"t", "o", "n", "y">>, <<"a", "n", "t">> >> >>,
    << <<"s", "t", "e", "v", "e", "n">>,
       << <<"s", "t", "e", "v", "e">>, <<"s", "t", "e", "v", "i", "e">> >> >>,
    << <<"k", "e", "n", "n", "e", "t", "h">>,
       << <<"k", "e", "n">>, <<"k", "e", "n", "n", "y">> >> >>,
    << <<"e", "d", "w", "a", "r", "d">>,
       << <<"e", "d">>, <<"e", "d", "d", "i", "e">>, <<"t", "e", "d">>, <<"t", "e", "d", "d", "y">> >> >>,
    << <<"d", "o", "n", "a", "l", "d">>,
       << <<"d", "o", "n">>, <<"d", "o", "n", "n", "y">> >> >>,
    << <<"e", "l", "i", "z", "a", "b", "e", "t", "h">>,
       << <<"l", "i", "z">>, <<"l", "i", "z", "z", "y">>, <<"b", "e", "t", "h">>, <<"b", "e", "t", "t", "y">>, <<"e", "l", "i">> >> >>,
    << <<"j", "e", "n", "n", "i", "f", "e", "r">>,
       << <<"j", "e", "n">>, <<"j", "e", "n", "n", "y">> >> >>,
    << <<"k", "a", "t", "h", "e", "r", "i", "n", "e">>,
       << <<"k", "a", "t", "h", "y">>, <<"k", "a", "t", "e">>, <<"k", "a", "t", "i", "e">>, <<"k", "a", "t", "y">> >> >>,
    << <<"m", "a", "r", "g", "a", "r", "e", "t">>,
       << <<"m", "a", "g", "g", "i", "e">>, <<"m", "e", "g">>, <<"m", "e", "g", "a", "n">>, <<"p", "e", "g", "g", "y">> >> >>,
    << <<"p", "a", "t", "r", "i", "c", "i", "a">>,
       << <<"p", "a", "t">>, <<"p", "a", "t", "t", "y">>, <<"t", "r", "i", "s", "h">> >> >>,
    << <<"d", "e", "b", "o", "r", "a", "h">>,
       << <<"d", "e", "b">>, <<"d", "e", "b", "b", "i", "e">> >> >>,
    << <<"j", "e", "s", "s", "i", "c", "a">>,
       << <<"j", "e", "s", "s">>, <<"j", "e", "s", "s", "i", "e">> >> >>,
    << <<"s", "a", "n", "d", "r", "a">>,
       << <<"s", "a", "n", "d", "y">> >> >>,
    << <<"b", "a", "r", "b", "a", "r", "a">>,
       << <<"b", "a", "r", "b">>, <<"b", "a", "r", "b", "i", "e">> >> >>,
    << <<"s", "t", "e", "p", "h", "a", "n", "i", "e">>,
       << <<"s", "t", "e", "p", "h">>, <<"s", "t", "e", "p", "h", "y">> >> >>,
    << <<"v", "i", "c", "t", "o", "r", "i", "a">>,
       << <<"v", "i", "c", "k", "y">>, <<"t", "o", "r", "i">> >> >>,
    << <<"j", "o", "n", "a", "t", "h", "a", "n">>,
       << <<"j", "o", "n">>, <<"j", "o", "n", "n", "y">> >> >>,
    << <<"n", "i", "c", "h", "o", "l", "a", "s">>,
       << <<"n", "i", "c", "k">>, <<"n", "i", "c", "k", "y">> >> >>,
    << <<"j", "e", "f", "f", "r", "e", "y">>,
       << <<"j", "e", "f", "f">> >> >>,
    << <<"b", "e", "n", "j", "a", "m", "i", "n">>,
       << <<"b", "e", "n">>, <<"b", "e", "n", "n", "y">> >> >>,
    << <<"t", "i", "m", "o", "t", "h", "y">>,
       << <<"t", "i", "m">>, <<"t", "i", "m", "m", "y">> >> >>,
    << <<"g", "r", "e", "g", "o", "r", "y">>,
       << <<"g", "r", "e", "g">>, <<"g", "r", "e", "g", "g">> >> >>,
    << <<"r", "a", "y", "m", "o", "n", "d">>,
       << <<"r", "a", "y">> >> >>,
    << <<"s", "a", "m", "u", "e", "l">>,
       << <<"s", "a", "m">>, <<"s", "a", "m", "m", "y">> >> >>,
    << <<"a", "n", "d", "r", "e", "w">>,
       << <<"a", "n", "d", "y">>, <<"d", "r", "e", "w">> >> >>,
    << <<"a", "l", "e", "x", "a", "n", "d", "e", "r">>,
       << <<"a", "l", "e", "x">>, <<"a", "l">> >> >>,
    << <<"d", "a", "v", "i", "d">>,
       << <<"d", "a", "v", "e">>, <<"d", "a", "v", "e", "y">> >> >>,
    << <<"j", "o", "s", "h", "u", "a">>,
       << <<"j", "o", "s", "h">> >> >>
  >>

(***************************************************************************)
(* Name normalizer: operations                                             *)
(***************************************************************************)
\* cleanName(name)
cleanName(name) ==
  IF Falsy(name) THEN <<>>
  ELSE Trim(CollapseSpaces(ReplaceSpecial(toLowerCase(name.val))))

\* parts.map(p => p.trim())
TrimAll(parts) == [i \in DOMAIN parts |-> Trim(parts[i])]

\* a variant of SwapParts that joins the two parts in the order given
SwapParts_InOrder(raw, parts) ==
  IF Len(parts) >= 2 THEN parts[1] \o <<" ">> \o parts[2] ELSE raw

\* a variant of SwapParts that keeps a third part, after the first two
SwapParts_WithThird(raw, parts) ==
  IF Len(parts) >= 3
  THEN parts[2] \o <<" ">> \o parts[1] \o <<" ">> \o parts[3]
  ELSE IF Len(parts) >= 2 THEN parts[2] \o <<" ">> \o parts[1] ELSE raw

\* `${parts[1]} ${parts[0]}` when there are two parts or more
SwapParts(raw, parts) ==
  IF Len(parts) >= 2 THEN parts[2] \o <<" ">> \o parts[1] ELSE raw

\* the "last, first" reordering at the head of parseName
ReorderComma(raw) ==
  IF Includes(raw, ",") THEN SwapParts(raw, TrimAll(Split(raw, ","))) ELSE raw

IsPrefixPart(part) == Includes(PREFIXES, StripTrailingPeriod(part))

IsSuffixPart(part) == Includes(SUFFIXES, StripTrailingPeriod(part))

IsMainPart(part) == ~IsPrefixPart(part) /\ ~IsSuffixPart(part)

IsSuffixOnlyPart(part) == ~IsPrefixPart(part) /\ IsSuffixPart(part)

\* s[0] as it is joined into a string: '' when s is empty
FirstChar(s) == IF s = <<>> THEN <<>> ELSE <<s[1]>>

RECURSIVE JoinInitials(_)
JoinInitials(arr) ==
  IF arr = <<>> THEN <<>> ELSE FirstChar(Head(arr)) \o JoinInitials(Tail(arr))

\* the object parseName returns for a name that is not falsy
ParsedName(original, cleanedName, normalized, pre, first, middle, last, suf) ==
  [original |-> original,
   cleaned |-> cleanedName,
   normalized |-> normalized,
   prefixes |-> pre,
   firstName |-> first,
   middleNames |-> middle,
   lastName |-> last,
   suffixes |-> suf,
   initials |-> [first |-> FirstChar(first),
                 middle |-> JoinInitials(middle),
                 last |-> FirstChar(last)]]

\* a variant of ParseMainParts in which a single main part is the last name too
ParseMainParts_LastOfOne(original, cleanedName, normalized, pre, suf, mainParts) ==
  ParsedName(original, cleanedName, normalized, pre,
             IF Len(mainParts) > 0 THEN mainParts[1] ELSE <<>>,
             IF Len(mainParts) > 2 THEN SubSeq(mainParts, 2, Len(mainParts) - 1)
             ELSE <<>>,
             IF Len(mainParts) > 0 THEN mainParts[Len(mainParts)] ELSE <<>>,
             suf)

\* firstName, lastName and middleNames from the main parts
ParseMainParts(original, cleanedName, normalized, pre, suf, mainParts) ==
  ParsedName(original, cleanedName, normalized, pre,
             IF Len(mainParts) > 0 THEN mainParts[1] ELSE <<>>,
             IF Len(mainParts) > 2 THEN SubSeq(mainParts, 2, Len(mainParts) - 1)
             ELSE <<>>,
             IF Len(mainParts) > 1 THEN mainParts[Len(mainParts)] ELSE <<>>,
             suf)

\* the loop that sorts the parts into prefixes, suffixes and main parts
ParseParts(original, cleanedName, normalized, allParts) ==
  ParseMainParts(original, cleanedName, normalized,
                 SelectSeq(allParts, IsPrefixPart),
                 SelectSeq(allParts, IsSuffixOnlyPart),
                 SelectSeq(allParts, IsMainPart))

\* const allParts = normalized.split(' ')
ParseNormalized(original, cleanedName, normalized) ==
  ParseParts(original, cleanedName, normalized, Split(normalized, " "))

\* if (cleanedName !== normalized) normalized = cleanedName
ParseCleaned(original, reordered, cleanedName) ==
  ParseNormalized(original, cleanedName,
                  IF cleanedName # reordered THEN cleanedName ELSE reordered)

ParseReordered(original, reordered) ==
  ParseCleaned(original, reordered, cleanName(Str(reordered)))

\* parseName(name): a record whose fields are the properties of the object
\* returned; for a falsy name that object has only `original` and `parts`
parseName(name) ==
  IF Falsy(name) THEN [original |-> <<>>, parts |-> <<>>]
  ELSE ParseReordered(name.val, ReorderComma(name.val))

\* a property read that yields undefined
Missing(obj, key) == key \notin DOMAIN obj

NonEmpty(s) == s # <<>>

\* [first, ...middle, last].filter(Boolean).join(' ')
JoinNameParts(first, middle, last) ==
  JoinSpace(SelectSeq(<<first>> \o middle \o <<last>>, NonEmpty))

\* spreading parsed.middleNames raises a TypeError when it is undefined
SpreadThrows(parsed) == Missing(parsed, "middleNames")

standardizeNameThrows(name) == SpreadThrows(parseName(name))

StandardForm(parsed) ==
  JoinNameParts(parsed.firstName, parsed.middleNames, parsed.lastName)

\* standardizeName(name), where it returns
standardizeName(name) == StandardForm(parseName(name))

\* NAME_VARIATIONS[firstName] for an own key of the table, else <<>>
NicknamesOf(firstName) ==
  IF \E i \in DOMAIN NAME_VARIATIONS : NAME_VARIATIONS[i][1] = firstName
  THEN NAME_VARIATIONS[CHOOSE i \in DOMAIN NAME_VARIATIONS :
                         NAME_VARIATIONS[i][1] = firstName][2]
  ELSE <<>>

\* the formal names of which firstName is a nickname, in table order
RECURSIVE FormalNamesFrom(_, _)
FormalNamesFrom(i, firstName) ==
  IF i > Len(NAME_VARIATIONS) THEN <<>>
  ELSE (IF Includes(NAME_VARIATIONS[i][2], firstName)
        THEN <<NAME_VARIATIONS[i][1]>> ELSE <<>>)
       \o FormalNamesFrom(i + 1, firstName)

\* keys the table object inherits from Object.prototype whose value is
\* truthy and not iterable: spreading NAME_VARIATIONS[key] raises a TypeError
InheritedKeys ==
  { <<"c", "o", "n", "s", "t", "r", "u", "c", "t", "o", "r">>,
    <<"_", "_", "p", "r", "o", "t", "o", "_", "_">> }

VariationsThrow(parsed) ==
  SpreadThrows(parsed) \/ parsed.firstName \in InheritedKeys

getNameVariationsThrows(name) == VariationsThrow(parseName(name))

\* a variant of FirstNameForms that does the reverse lookup only
FirstNameForms_ReverseLookupOnly(firstName) ==
  <<firstName>> \o FormalNamesFrom(1, firstName)

\* firstNameVariations: the first name, its nicknames, its formal names
FirstNameForms(firstName) ==
  <<firstName>> \o NicknamesOf(firstName) \o FormalNamesFrom(1, firstName)

\* one variation per first-name form
WithFirst(firsts, middle, last) ==
  [i \in DOMAIN firsts |-> JoinNameParts(firsts[i], middle, last)]

\* the forms with firstVariation !== parsed.firstName
OtherForms(firsts, firstName) ==
  SelectSeq(firsts, LAMBDA f : f # firstName)

\* [parsed.initials.middle], dropped by filter(Boolean) when it is ''
MiddleInitial(parsed) ==
  IF parsed.initials.middle = <<>> THEN <<>> ELSE <<parsed.initials.middle>>

\* the variations pushed, in order, and then made unique
Variations(parsed, standard, firsts, others) ==
  Unique(<<standard>>
           \o WithFirst(firsts, parsed.middleNames, parsed.lastName)
           \o (IF Len(parsed.middleNames) > 0
               THEN WithFirst(<<parsed.firstName>> \o others,
                              MiddleInitial(parsed), parsed.lastName)
               ELSE <<>>)
           \o WithFirst(<<parsed.firstName>> \o others, <<>>, parsed.lastName),
         {})

VariationsOf(parsed, standard, firsts) ==
  Variations(parsed, standard, firsts, OtherForms(firsts, parsed.firstName))

VariationsFrom(parsed, standard) ==
  VariationsOf(parsed, standard, FirstNameForms(parsed.firstName))

\* getNameVariations(name), where it returns
getNameVariations(name) == VariationsFrom(parseName(name), standardizeName(name))

\* normalizeNameOrder(name) returns undefined for a falsy name
normalizeNameOrderUndefined(name) == Missing(parseName(name), "normalized")

\* normalizeNameOrder(name), where it is defined
normalizeNameOrder(name) == parseName(name).normalized

(***************************************************************************)
(* Structural matcher (EnhancedMatcher)                                    *)
(***************************************************************************)
stopwords ==
  << <<"a", "n", "d">>, <<"o", "r">>, <<"t", "h", "e">>, <<"d", "e">>,
     <<"l", "a">>, <<"d", "e", "l">>, <<"v", "a", "n">>, <<"v", "o", "n">>,
     <<"d", "e", "r">> >>

prefixes ==
  << <<"m", "r">>, <<"m", "r", "s">>, <<"m", "s">>, <<"m", "i", "s", "s">>,
     <<"d", "r">>, <<"p", "r", "o", "f">> >>

suffixes ==
  << <<"j", "r">>, <<"s", "r">>, <<"i", "i">>, <<"i", "i", "i">>,
     <<"i", "v">>, <<"v">>, <<"p", "h", "d">>, <<"m", "d">>,
     <<"e", "s", "q">> >>

\* the filter that keeps a token
IsToken(token) ==
  /\ Len(token) > 0
  /\ ~Includes(stopwords, token)
  /\ ~Includes(prefixes, token)
  /\ ~Includes(suffixes, token)

\* parsed.normalized.split raises a TypeError when parsed.normalized is
\* undefined; getNameVariations(parsed.firstName) may raise one
StructureThrows(parsed) ==
  \/ Missing(parsed, "normalized")
  \/ getNameVariationsThrows(Str(parsed.firstName))

normalizeNameForComparisonThrows(name) == StructureThrows(parseName(name))

\* the object normalizeNameForComparison returns
Structure(name, parsed) ==
  [original |-> name,
   normalized |-> parsed.normalized,
   tokens |-> SelectSeq(Split(parsed.normalized, " "), IsToken),
   firstName |-> parsed.firstName,
   middleNames |-> parsed.middleNames,
   lastName |-> parsed.lastName,
   initials |-> parsed.initials,
   firstNameVariations |-> getNameVariations(Str(parsed.firstName))]

\* normalizeNameForComparison(name), where it returns
normalizeNameForComparison(name) == Structure(name, parseName(name))

\* a variant of exactMatchScore without the first-and-last-name rule
exactMatchScore_NormalizedOnly(name1, name2) ==
  IF name1.normalized = name2.normalized THEN One ELSE Zero

\* a variant of exactMatchScore that takes a nickname of the first name for
\* the first name
exactMatchScore_ByVariations(name1, name2) ==
  IF name1.normalized = name2.normalized THEN One
  ELSE IF /\ name1.firstName # <<>> /\ name2.firstName # <<>>
          /\ name1.lastName # <<>> /\ name2.lastName # <<>>
          /\ \/ name1.firstName = name2.firstName
             \/ name2.firstName \in Range(name1.firstNameVariations)
          /\ name1.lastName = name2.lastName
       THEN Rat(9, 10)
       ELSE Zero

exactMatchScore(name1, name2) ==
  IF name1.normalized = name2.normalized THEN One
  ELSE IF /\ name1.firstName # <<>> /\ name2.firstName # <<>>
          /\ name1.lastName # <<>> /\ name2.lastName # <<>>
          /\ name1.firstName = name2.firstName
          /\ name1.lastName = name2.lastName
       THEN Rat(9, 10)
       ELSE Zero

\* intersection.size / union.size
Jaccard(tokens1, tokens2) ==
  IF Cardinality(tokens1 \cup tokens2) = 0 THEN Zero
  ELSE Rat(Cardinality({x \in tokens1 : x \in tokens2}),
           Cardinality(tokens1 \cup tokens2))

tokenSetScore(name1, name2) == Jaccard(Range(name1.tokens), Range(name2.tokens))

\* String.prototype.charAt(0): '' for an empty string
charAt0(s) == IF s = <<>> THEN <<>> ELSE <<s[1]>>

\* a variant of initialsMatchScore without the test on the tokens
initialsMatchScore_NoTokenTest(name1, name2) ==
  IF charAt0(name1.firstName) = charAt0(name2.firstName)
  THEN IF charAt0(name1.lastName) = charAt0(name2.lastName)
       THEN Rat(7, 10)
       ELSE Rat(4, 10)
  ELSE Zero

initialsMatchScore(name1, name2) ==
  IF /\ Len(name1.tokens) > 0
     /\ Len(name2.tokens) > 0
     /\ charAt0(name1.firstName) = charAt0(name2.firstName)
  THEN IF charAt0(name1.lastName) = charAt0(name2.lastName)
       THEN Rat(7, 10)
       ELSE Rat(4, 10)
  ELSE Zero

Min3(a, b, c) ==
  IF a <= b /\ a <= c THEN a ELSE IF b <= c THEN b ELSE c

\* matrix[i][j] from the cells above, to the left and diagonal
Cell(up, left, diag, same) == Min3(up + 1, left + 1, diag + (IF same THEN 0 ELSE 1))

\* row i of the matrix from row i-1 (prev): row[j + 1] is matrix[i][j].
\* (The test cell >= 0 is always true; it makes TLC compute the cell before
\* the next one, which keeps its evaluation stack shallow.)
RECURSIVE MatrixRow(_, _, _, _)
MatrixRow(prev, ch, str2, row) ==
  IF Len(row) > Len(str2) THEN row
  ELSE LET cell == Cell(prev[Len(row) + 1], row[Len(row)], prev[Len(row)],
                        ch = str2[Len(row)])
       IN  IF cell >= 0 THEN MatrixRow(prev, ch, str2, Append(row, cell)) ELSE row

\* rows 1..len1 in turn (the test Len(row) > 0 is always true, as above)
RECURSIVE MatrixFill(_, _, _, _)
MatrixFill(prev, i, str1, str2) ==
  IF i > Len(str1) THEN prev
  ELSE LET row == MatrixRow(prev, str1[i], str2, <<i>>)
       IN  IF Len(row) > 0 THEN MatrixFill(row, i + 1, str1, str2) ELSE row

\* matrix[len1][len2]
Levenshtein(str1, str2) ==
  MatrixFill([j \in 1..(Len(str2) + 1) |-> j - 1], 1, str1, str2)[Len(str2) + 1]

MaxInt(a, b) == IF a >= b THEN a ELSE b

\* maxLength > 0 ? 1 - (distance / maxLength) : 1
DistanceSimilarity(distance, maxLength) ==
  IF maxLength > 0 THEN Rat(maxLength - distance, maxLength) ELSE One

\* a variant of editDistanceScore that divides by the first length only
editDistanceScore_ByLen1(name1, name2) ==
  IF name1.normalized = <<>> \/ name2.normalized = <<>> THEN Zero
  ELSE DistanceSimilarity(Levenshtein(name1.normalized, name2.normalized),
                          Len(name1.normalized))

editDistanceScore(name1, name2) ==
  IF name1.normalized = <<>> \/ name2.normalized = <<>> THEN Zero
  ELSE DistanceSimilarity(Levenshtein(name1.normalized, name2.normalized),
                          MaxInt(Len(name1.normalized), Len(name2.normalized)))

EnhancedGetSimilarityThrows(name1, name2) ==
  normalizeNameForComparisonThrows(name1) \/ normalizeNameForComparisonThrows(name2)

\* the best score of the four strategies, starting from bestScore = 0
\* a variant of BestScore that rounds the best score to 2 decimals
BestScore_Rounded(normalized1, normalized2) ==
  toFixed2(MathMax(MathMax(MathMax(MathMax(Zero,
    exactMatchScore(normalized1, normalized2)),
    tokenSetScore(normalized1, normalized2)),
    initialsMatchScore(normalized1, normalized2)),
    editDistanceScore(normalized1, normalized2)))

BestScore(normalized1, normalized2) ==
  MathMax(MathMax(MathMax(MathMax(Zero,
    exactMatchScore(normalized1, normalized2)),
    tokenSetScore(normalized1, normalized2)),
    initialsMatchScore(normalized1, normalized2)),
    editDistanceScore(normalized1, normalized2))

\* EnhancedMatcher.getSimilarity(name1, name2), where it returns
EnhancedGetSimilarity(name1, name2) ==
  BestScore(normalizeNameForComparison(name1), normalizeNameForComparison(name2))

\* the index pairs the two nested loops visit, in order (indexes from 1)
RECURSIVE PairLoop(_, _, _)
PairLoop(i, j, n) ==
  IF i > n THEN <<>>
  ELSE IF j > n THEN PairLoop(i + 1, i + 2, n)
       ELSE <<<<i, j>>>> \o PairLoop(i, j + 1, n)

PairIndexes(n) == PairLoop(1, 2, n)

\* totalScore
RECURSIVE TotalScore(_)
TotalScore(matches) ==
  IF matches = <<>> THEN Zero
  ELSE Add(Head(matches).similarity, TotalScore(Tail(matches)))

EnhancedMatchNameGroupThrows(nameGroup) ==
  /\ Len(nameGroup) > 1
  /\ \E i, j \in DOMAIN nameGroup :
       i < j /\ EnhancedGetSimilarityThrows(nameGroup[i], nameGroup[j])

\* matches.push({ name1, name2, similarity })
EnhancedMatch(name1, name2) ==
  [name1 |-> name1, name2 |-> name2,
   similarity |-> EnhancedGetSimilarity(name1, name2)]

EnhancedMatches(nameGroup, pairs) ==
  [k \in DOMAIN pairs |->
     EnhancedMatch(nameGroup[pairs[k][1]], nameGroup[pairs[k][2]])]

\* { score: totalScore / pairCount, matches }
EnhancedGroupResult(matches) ==
  [score |-> DivInt(TotalScore(matches), Len(matches)), matches |-> matches]

\* EnhancedMatcher.matchNameGroup(nameGroup), where it returns
EnhancedMatchNameGroup(nameGroup) ==
  IF Len(nameGroup) <= 1 THEN [score |-> One, matches |-> <<>>]
  ELSE EnhancedGroupResult(EnhancedMatches(nameGroup, PairIndexes(Len(nameGroup))))

(***************************************************************************)
(* The matcher and its caller: state                                       *)
(***************************************************************************)
VARIABLES
  configured,  \* options.threshold as given to the constructor
  threshold,   \* this.threshold
  oracle,      \* which string-distance black box the natural library is
  pc,          \* "idle": no call in progress; "returned": a call has ended
  op,          \* the operation last called
  args,        \* its arguments
  result,      \* the value it returned
  fault        \* "none", or the error it raised

vars == <<configured, threshold, oracle, pc, op, args, result, fault>>

\* how many string-distance black boxes are tried
NumOracles == 2

\* the longest name group passed to matchNameGroup
MaxGroupSize == 3

(***************************************************************************)
(* Inputs                                                                  *)
(***************************************************************************)
EmptyString == Str(<<>>)

\* "John Smith"
JohnSmith == Str(<<"J", "o", "h", "n", " ", "S", "m", "i", "t", "h">>)

\* "Smith, John"
SmithCommaJohn == Str(<<"S", "m", "i", "t", "h", ",", " ", "J", "o", "h", "n">>)

\* "john smith"
LowerJohnSmith == Str(<<"j", "o", "h", "n", " ", "s", "m", "i", "t", "h">>)

\* "John"
John == Str(<<"J", "o", "h", "n">>)

\* "Dr. John Smith Jr."
DrJohnSmithJr == Str(<<"D", "r", ".", " ", "J", "o", "h", "n", " ", "S", "m", "i", "t", "h", " ", "J", "r", ".">>)

\* "James Smith"
JamesSmith == Str(<<"J", "a", "m", "e", "s", " ", "S", "m", "i", "t", "h">>)

\* "Jane Stone"
JaneStone == Str(<<"J", "a", "n", "e", " ", "S", "t", "o", "n", "e">>)

\* " "
Blank == Str(<<" ">>)

\* "Dr."
DrOnly == Str(<<"D", "r", ".">>)

\* "Jr"
JrOnly == Str(<<"J", "r">>)

\* "Michael Jackson"
MichaelJackson ==
  Str(<<"M", "i", "c", "h", "a", "e", "l", " ", "J", "a", "c", "k", "s", "o",
      "n">>)

\* "Michael Jackson Jr"
MichaelJacksonJr ==
  Str(<<"M", "i", "c", "h", "a", "e", "l", " ", "J", "a", "c", "k", "s", "o",
      "n", " ", "J", "r">>)

\* "Ander Herrera"
AnderHerrera ==
  Str(<<"A", "n", "d", "e", "r", " ", "H", "e", "r", "r", "e", "r", "a">>)

\* "Herrera Ander"
HerreraAnder ==
  Str(<<"H", "e", "r", "r", "e", "r", "a", " ", "A", "n", "d", "e", "r">>)

\* "Rev John Smith"
RevJohnSmith ==
  Str(<<"R", "e", "v", " ", "J", "o", "h", "n", " ", "S", "m", "i", "t", "h">>)

\* "Smith John"
SmithJohn ==
  Str(<<"S", "m", "i", "t", "h", " ", "J", "o", "h", "n">>)

\* "Constructor Smith"
ConstructorSmith ==
  Str(<<"C", "o", "n", "s", "t", "r", "u", "c", "t", "o", "r", " ", "S", "m",
      "i", "t", "h">>)

Names ==
  { Null, Undefined, EmptyString, Blank, DrOnly, JrOnly, John, JohnSmith,
    SmithCommaJohn, LowerJohnSmith, DrJohnSmithJr, JamesSmith, JaneStone }

\* the names given to the structural matcher when it is called on its own
StructuralNames ==
  Names \cup
  { MichaelJackson, MichaelJacksonJr, AnderHerrera, HerreraAnder,
    RevJohnSmith, SmithJohn, ConstructorSmith }

\* "Smith, John William Jr."
SmithCommaJohnWilliamJr ==
  Str(<<"S", "m", "i", "t", "h", ",", " ", "J", "o", "h", "n", " ", "W", "i",
      "l", "l", "i", "a", "m", " ", "J", "r", ".">>)

\* "William Smith"
WilliamSmith ==
  Str(<<"W", "i", "l", "l", "i", "a", "m", " ", "S", "m", "i", "t", "h">>)

\* "Dr. John William Smith Jr."
DrJohnWilliamSmithJr ==
  Str(<<"D", "r", ".", " ", "J", "o", "h", "n", " ", "W", "i", "l", "l", "i",
      "a", "m", " ", "S", "m", "i", "t", "h", " ", "J", "r", ".">>)

\* "John Dr Smith"
JohnDrSmith ==
  Str(<<"J", "o", "h", "n", " ", "D", "r", " ", "S", "m", "i", "t", "h">>)

\* "Bob Johnson"
BobJohnson ==
  Str(<<"B", "o", "b", " ", "J", "o", "h", "n", "s", "o", "n">>)

\* "Robert Johnson"
RobertJohnson ==
  Str(<<"R", "o", "b", "e", "r", "t", " ", "J", "o", "h", "n", "s", "o", "n">>)

\* a formal name and its nickname, with one last name
NicknameNames == { RobertJohnson, BobJohnson }

\* "Smith, John, Jr."
SmithCommaJohnCommaJr ==
  Str(<<"S", "m", "i", "t", "h", ",", " ", "J", "o", "h", "n", ",", " ", "J",
      "r", ".">>)

\* "John van der Berg"
JohnVanDerBerg ==
  Str(<<"J", "o", "h", "n", " ", "v", "a", "n", " ", "d", "e", "r", " ", "B",
      "e", "r", "g">>)

\* "Mary Ann V Lee"
MaryAnnVLee ==
  Str(<<"M", "a", "r", "y", " ", "A", "n", "n", " ", "V", " ", "L", "e", "e">>)

\* comma-free segments of a name: "Smith", "John", "John W.", " de  la Cruz "
Segments ==
  { <<"S", "m", "i", "t", "h">>,
    <<"J", "o", "h", "n">>,
    <<"J", "o", "h", "n", " ", "W", ".">>,
    <<" ", "d", "e", " ", " ", "l", "a", " ", "C", "r", "u", "z", " ">> }

\* "A, B"
CommaForm(A, B) == Str(A \o <<",", " ">> \o B)

\* "B A"
SpaceForm(A, B) == Str(B \o <<" ">> \o A)

CommaForms == { CommaForm(A, B) : A, B \in Segments }

\* what follows a second comma: "Jr.", "William, III"
Tails ==
  { <<"J", "r", ".">>,
    <<"W", "i", "l", "l", "i", "a", "m", ",", " ", "I", "I", "I">> }

\* "A, B, C"
TwoCommaForm(A, B, C) == Str(A \o <<",", " ">> \o B \o <<",", " ">> \o C)

TwoCommaForms ==
  { TwoCommaForm(A, B, C) : A \in Segments, B \in Segments, C \in Tails }

\* "f smith" for every formal name f of the nickname table
FormalNames ==
  { Str(NAME_VARIATIONS[i][1] \o <<" ", "s", "m", "i", "t", "h">>) :
      i \in DOMAIN NAME_VARIATIONS }

\* the names given to the operations of the name normalizer
NormalizerNames ==
  StructuralNames \cup CommaForms \cup TwoCommaForms \cup FormalNames \cup
  { SmithCommaJohnWilliamJr, WilliamSmith, DrJohnWilliamSmithJr, JohnDrSmith,
    BobJohnson, SmithCommaJohnCommaJr, JohnVanDerBerg, MaryAnnVLee }

\* "De"
De == Str(<<"D", "e">>)

\* the names whose structures are given to the strategies called on their own
StrategyNames ==
  { John, JohnSmith, SmithCommaJohn, JamesSmith, JaneStone, DrJohnSmithJr,
    De, RevJohnSmith, MichaelJackson, JohnVanDerBerg }

\* a structure whose normalized string is '': the fields parseName(' ') gives
\* it, no tokens and no variations
EmptyStructure ==
  [original |-> Blank,
   normalized |-> parseName(Blank).normalized,
   tokens |-> <<>>,
   firstName |-> parseName(Blank).firstName,
   middleNames |-> parseName(Blank).middleNames,
   lastName |-> parseName(Blank).lastName,
   initials |-> parseName(Blank).initials,
   firstNameVariations |-> <<>>]

\* the structures given to the strategies called on their own
Structures ==
  { normalizeNameForComparison(name) : name \in StrategyNames }
    \cup { EmptyStructure }

GroupNames == { EmptyString, DrOnly, JohnSmith, SmithCommaJohn, JamesSmith }

Groups == UNION { [1..n -> GroupNames] : n \in 0..MaxGroupSize }

\* the names and the groups a caller gives to one matcher again and again
RepeatedNames == { JohnSmith, SmithCommaJohn, DrOnly }

RepeatedGroupNames == { JohnSmith, JamesSmith }

\* the largest group such a caller gives
MaxRepeatedGroupSize == 2

RepeatedGroups ==
  UNION { [1..n -> RepeatedGroupNames] : n \in 0..MaxRepeatedGroupSize }

\* options.threshold: not given, or a number
NoThreshold == [given |-> FALSE, value |-> Zero]

Given(x) == [given |-> TRUE, value |-> x]

ThresholdOptions ==
  { NoThreshold, Given(Zero), Given(Rat(1, 2)), Given(Rat(9, 10)),
    Given(Rat(3, 2)) }

\* the options argument of a wrapper of the package index: left out, or an
\* object with or without a threshold
WrapperOptions == { Undefined } \cup ThresholdOptions

\* function(..., options = { threshold: 0.75 })
DefaultOptions(options) ==
  IF "given" \in DOMAIN options THEN options ELSE Given(Rat(3, 4))

\* the names and the groups of two names given to the wrappers
WrapperNames == { Null, DrOnly, JohnSmith, SmithCommaJohn, JamesSmith }

PairGroups == [1..2 -> WrapperNames]

(***************************************************************************)
(* The natural library: a symmetric black box returning a score in [0,1]   *)
(***************************************************************************)
OracleValue(k, alg, s1, s2) ==
  Rat(((Len(s1) + Len(s2)) * (211 * k + 97 * alg) + 53 * k * Len(s1) * Len(s2)) % 1001,
      1000)

\* natural.JaroWinklerDistance(name1, name2)
JaroWinklerDistance(s1, s2) == OracleValue(oracle, 1, s1, s2)

\* natural.DiceCoefficient(name1, name2)
DiceCoefficient(s1, s2) == OracleValue(oracle, 2, s1, s2)

\* natural.LevenshteinDistance(name1, name2) with its default unit costs
LevenshteinDistance(s1, s2) == Levenshtein(s1, s2)

(***************************************************************************)
(* Combined scorer (EnhancedNaturalMatcher)                                *)
(***************************************************************************)
\* this.threshold = options.threshold || 0.75
constructorThreshold(options) ==
  IF ~options.given \/ options.value = Zero \/ IsNaN(options.value)
  THEN Rat(3, 4)
  ELSE options.value

\* Math.max(jaroWinkler, diceCoefficient, levenshteinSimilarity)
getNaturalScore(name1, name2) ==
  IF Falsy(name1) \/ Falsy(name2) THEN Zero
  ELSE MathMax(MathMax(JaroWinklerDistance(name1.val, name2.val),
                       DiceCoefficient(name1.val, name2.val)),
               DistanceSimilarity(LevenshteinDistance(name1.val, name2.val),
                                  MaxInt(Len(name1.val), Len(name2.val))))

getSimilarityThrows(name1, name2) ==
  /\ ~Falsy(name1)
  /\ ~Falsy(name2)
  /\ name1 # name2
  /\ EnhancedGetSimilarityThrows(name1, name2)

\* a variant of AverageScore that rounds each score before averaging
AverageScore_RoundedFirst(naturalScore, enhancedScore) ==
  toFixed2(DivInt(Add(toFixed2(naturalScore), toFixed2(enhancedScore)), 2))

\* a variant of AverageScore that adds the scores and does not halve the sum
AverageScore_Sum(naturalScore, enhancedScore) ==
  toFixed2(Add(naturalScore, enhancedScore))

\* the average of the two scores, to 2 decimals
AverageScore(naturalScore, enhancedScore) ==
  toFixed2(DivInt(Add(naturalScore, enhancedScore), 2))

\* a variant of getSimilarity whose exact-match test returns what the falsy
\* test returns
getSimilarity_IdenticalAsFalsy(name1, name2) ==
  IF Falsy(name1) \/ Falsy(name2) THEN Zero
  ELSE IF name1 = name2 THEN Zero
  ELSE AverageScore(getNaturalScore(name1, name2),
                    EnhancedGetSimilarity(name1, name2))

\* a variant of getSimilarity that tests for an exact match first
getSimilarity_ExactFirst(name1, name2) ==
  IF name1 = name2 THEN One
  ELSE IF Falsy(name1) \/ Falsy(name2) THEN Zero
  ELSE AverageScore(getNaturalScore(name1, name2),
                    EnhancedGetSimilarity(name1, name2))

\* EnhancedNaturalMatcher.getSimilarity(name1, name2), where it returns
getSimilarity(name1, name2) ==
  IF Falsy(name1) \/ Falsy(name2) THEN Zero
  ELSE IF name1 = name2 THEN One
  ELSE AverageScore(getNaturalScore(name1, name2),
                    EnhancedGetSimilarity(name1, name2))

\* EnhancedNaturalMatcher.isMatch(name1, name2), where it returns
isMatch(name1, name2) == Geq(getSimilarity(name1, name2), threshold)

\* a variant of the early return that covers the empty group only
IsTrivialGroup_EmptyOnly(nameGroup) == Len(nameGroup) < 1

\* the early return of matchNameGroup
IsTrivialGroup(nameGroup) == Len(nameGroup) <= 1

matchNameGroupThrows(nameGroup) ==
  /\ ~IsTrivialGroup(nameGroup)
  /\ \E i, j \in DOMAIN nameGroup :
       i < j /\ getSimilarityThrows(nameGroup[i], nameGroup[j])

\* a variant of Match that stores the two names the other way round
Match_Swapped(name1, name2) ==
  [name1 |-> name2, name2 |-> name1, similarity |-> getSimilarity(name1, name2)]

\* matches.push({ name1, name2, similarity })
Match(name1, name2) ==
  [name1 |-> name1, name2 |-> name2, similarity |-> getSimilarity(name1, name2)]

Matches(nameGroup, pairs) ==
  [k \in DOMAIN pairs |-> Match(nameGroup[pairs[k][1]], nameGroup[pairs[k][2]])]

\* { score: averageScore, matches, isMatch: averageScore >= this.threshold }
GroupVerdict(averageScore, matches) ==
  [score |-> averageScore, matches |-> matches,
   isMatch |-> Geq(averageScore, threshold)]

\* a variant of GroupResult that cuts the average to 2 decimals
GroupResult_Truncated(matches) ==
  GroupVerdict(Rat((100 * TotalScore(matches).n)
                     \div (TotalScore(matches).d * Len(matches)), 100),
               matches)

\* a variant of GroupResult that divides by one more than the number of pairs
GroupResult_OneMore(matches) ==
  GroupVerdict(toFixed2(DivInt(TotalScore(matches), Len(matches) + 1)), matches)

\* averageScore = parseFloat((totalScore / pairCount).toFixed(2))
GroupResult(matches) ==
  GroupVerdict(toFixed2(DivInt(TotalScore(matches), Len(matches))), matches)

\* EnhancedNaturalMatcher.matchNameGroup(nameGroup), where it returns
matchNameGroup(nameGroup) ==
  IF IsTrivialGroup(nameGroup)
  THEN [score |-> One, matches |-> <<>>, isMatch |-> TRUE]
  ELSE GroupResult(Matches(nameGroup, PairIndexes(Len(nameGroup))))

(***************************************************************************)
(* Behaviour: a caller constructs matchers and calls them one at a time    *)
(***************************************************************************)
NoResult == <<>>

Init ==
  /\ configured \in ThresholdOptions
  /\ threshold = constructorThreshold(configured)
  /\ oracle \in 0..(NumOracles - 1)
  /\ pc = "idle"
  /\ op = "none"
  /\ args = <<>>
  /\ result = NoResult
  /\ fault = "none"

\* new EnhancedNaturalMatcher({ threshold }) or new EnhancedNaturalMatcher()
Construct(options) ==
  /\ pc = "idle"
  /\ configured' = options
  /\ threshold' = constructorThreshold(options)
  /\ UNCHANGED <<oracle, pc, op, args, result, fault>>

\* a call ends by raising a TypeError or by returning a value
FaultIf(throws) == IF throws THEN "TypeError" ELSE "none"

\* matcher.getSimilarity(name1, name2)
GetSimilarity(name1, name2) ==
  /\ pc = "idle"
  /\ pc' = "returned"
  /\ op' = "getSimilarity"
  /\ args' = <<name1, name2>>
  /\ fault' = FaultIf(getSimilarityThrows(name1, name2))
  /\ result' = IF getSimilarityThrows(name1, name2) THEN NoResult
                ELSE getSimilarity(name1, name2)
  /\ UNCHANGED <<configured, threshold, oracle>>

\* a variant of IsMatch that stores the score of the pair as the threshold
IsMatch_StoringScore(name1, name2) ==
  /\ pc = "idle"
  /\ pc' = "returned"
  /\ op' = "isMatch"
  /\ args' = <<name1, name2>>
  /\ fault' = FaultIf(getSimilarityThrows(name1, name2))
  /\ result' = IF getSimilarityThrows(name1, name2) THEN NoResult
                ELSE isMatch(name1, name2)
  /\ threshold' = IF getSimilarityThrows(name1, name2) THEN threshold
                   ELSE getSimilarity(name1, name2)
  /\ UNCHANGED <<configured, oracle>>

\* matcher.isMatch(name1, name2)
IsMatch(name1, name2) ==
  /\ pc = "idle"
  /\ pc' = "returned"
  /\ op' = "isMatch"
  /\ args' = <<name1, name2>>
  /\ fault' = FaultIf(getSimilarityThrows(name1, name2))
  /\ result' = IF getSimilarityThrows(name1, name2) THEN NoResult
                ELSE isMatch(name1, name2)
  /\ UNCHANGED <<configured, threshold, oracle>>

\* matcher.matchNameGroup(nameGroup)
MatchNameGroup(nameGroup) ==
  /\ pc = "idle"
  /\ pc' = "returned"
  /\ op' = "matchNameGroup"
  /\ args' = nameGroup
  /\ fault' = FaultIf(matchNameGroupThrows(nameGroup))
  /\ result' = IF matchNameGroupThrows(nameGroup) THEN NoResult
                ELSE matchNameGroup(nameGroup)
  /\ UNCHANGED <<configured, threshold, oracle>>

\* matcher.enhancedMatcher.getSimilarity(name1, name2)
StructuralGetSimilarity(name1, name2) ==
  /\ pc = "idle"
  /\ pc' = "returned"
  /\ op' = "EnhancedMatcher.getSimilarity"
  /\ args' = <<name1, name2>>
  /\ fault' = FaultIf(EnhancedGetSimilarityThrows(name1, name2))
  /\ result' = IF EnhancedGetSimilarityThrows(name1, name2) THEN NoResult
                ELSE EnhancedGetSimilarity(name1, name2)
  /\ UNCHANGED <<configured, threshold, oracle>>

\* matcher.enhancedMatcher.matchNameGroup(nameGroup)
StructuralMatchNameGroup(nameGroup) ==
  /\ pc = "idle"
  /\ pc' = "returned"
  /\ op' = "EnhancedMatcher.matchNameGroup"
  /\ args' = nameGroup
  /\ fault' = FaultIf(EnhancedMatchNameGroupThrows(nameGroup))
  /\ result' = IF EnhancedMatchNameGroupThrows(nameGroup) THEN NoResult
                ELSE EnhancedMatchNameGroup(nameGroup)
  /\ UNCHANGED <<configured, threshold, oracle>>

\* parseName(name)
ParseName(name) ==
  /\ pc = "idle"
  /\ pc' = "returned"
  /\ op' = "parseName"
  /\ args' = <<name>>
  /\ fault' = "none"
  /\ result' = parseName(name)
  /\ UNCHANGED <<configured, threshold, oracle>>

\* standardizeName(name)
StandardizeName(name) ==
  /\ pc = "idle"
  /\ pc' = "returned"
  /\ op' = "standardizeName"
  /\ args' = <<name>>
  /\ fault' = FaultIf(standardizeNameThrows(name))
  /\ result' = IF standardizeNameThrows(name) THEN NoResult
                ELSE Str(standardizeName(name))
  /\ UNCHANGED <<configured, threshold, oracle>>

\* getNameVariations(name)
GetNameVariations(name) ==
  /\ pc = "idle"
  /\ pc' = "returned"
  /\ op' = "getNameVariations"
  /\ args' = <<name>>
  /\ fault' = FaultIf(getNameVariationsThrows(name))
  /\ result' = IF getNameVariationsThrows(name) THEN NoResult
                ELSE getNameVariations(name)
  /\ UNCHANGED <<configured, threshold, oracle>>

\* normalizeNameOrder(name)
NormalizeNameOrder(name) ==
  /\ pc = "idle"
  /\ pc' = "returned"
  /\ op' = "normalizeNameOrder"
  /\ args' = <<name>>
  /\ fault' = "none"
  /\ result' = IF normalizeNameOrderUndefined(name) THEN Undefined
                ELSE Str(normalizeNameOrder(name))
  /\ UNCHANGED <<configured, threshold, oracle>>

\* matcher.enhancedMatcher.normalizeNameForComparison(name)
NormalizeNameForComparison(name) ==
  /\ pc = "idle"
  /\ pc' = "returned"
  /\ op' = "normalizeNameForComparison"
  /\ args' = <<name>>
  /\ fault' = FaultIf(normalizeNameForComparisonThrows(name))
  /\ result' = IF normalizeNameForComparisonThrows(name) THEN NoResult
                ELSE normalizeNameForComparison(name)
  /\ UNCHANGED <<configured, threshold, oracle>>

\* matcher.enhancedMatcher.editDistanceScore(name1, name2), on two structures
EditDistanceScore(name1, name2) ==
  /\ pc = "idle"
  /\ pc' = "returned"
  /\ op' = "editDistanceScore"
  /\ args' = <<name1, name2>>
  /\ fault' = "none"
  /\ result' = editDistanceScore(name1, name2)
  /\ UNCHANGED <<configured, threshold, oracle>>

\* matcher.enhancedMatcher.initialsMatchScore(name1, name2), on two structures
InitialsMatchScore(name1, name2) ==
  /\ pc = "idle"
  /\ pc' = "returned"
  /\ op' = "initialsMatchScore"
  /\ args' = <<name1, name2>>
  /\ fault' = "none"
  /\ result' = initialsMatchScore(name1, name2)
  /\ UNCHANGED <<configured, threshold, oracle>>

\* match(name1, name2, options) of the package index, its first statement:
\* const matcher = new EnhancedNaturalMatcher(options)
IndexMatch(name1, name2, options) ==
  /\ pc = "idle"
  /\ pc' = "constructed"
  /\ op' = "index.match"
  /\ args' = <<name1, name2>>
  /\ configured' = DefaultOptions(options)
  /\ threshold' = constructorThreshold(DefaultOptions(options))
  /\ UNCHANGED <<oracle, result, fault>>

\* its second statement: return matcher.getSimilarity(name1, name2)
IndexMatchCall ==
  /\ pc = "constructed"
  /\ op = "index.match"
  /\ pc' = "returned"
  /\ fault' = FaultIf(getSimilarityThrows(args[1], args[2]))
  /\ result' = IF getSimilarityThrows(args[1], args[2]) THEN NoResult
                ELSE getSimilarity(args[1], args[2])
  /\ UNCHANGED <<configured, threshold, oracle, op, args>>

\* isMatch(name1, name2, options) of the package index, its first statement:
\* const matcher = new EnhancedNaturalMatcher(options)
IndexIsMatch(name1, name2, options) ==
  /\ pc = "idle"
  /\ pc' = "constructed"
  /\ op' = "index.isMatch"
  /\ args' = <<name1, name2>>
  /\ configured' = DefaultOptions(options)
  /\ threshold' = constructorThreshold(DefaultOptions(options))
  /\ UNCHANGED <<oracle, result, fault>>

\* its second statement: return matcher.isMatch(name1, name2)
IndexIsMatchCall ==
  /\ pc = "constructed"
  /\ op = "index.isMatch"
  /\ pc' = "returned"
  /\ fault' = FaultIf(getSimilarityThrows(args[1], args[2]))
  /\ result' = IF getSimilarityThrows(args[1], args[2]) THEN NoResult
                ELSE isMatch(args[1], args[2])
  /\ UNCHANGED <<configured, threshold, oracle, op, args>>

\* matchGroup(nameGroup, options) of the package index, its first statement:
\* const matcher = new EnhancedNaturalMatcher(options)
IndexMatchGroup(nameGroup, options) ==
  /\ pc = "idle"
  /\ pc' = "constructed"
  /\ op' = "index.matchGroup"
  /\ args' = nameGroup
  /\ configured' = DefaultOptions(options)
  /\ threshold' = constructorThreshold(DefaultOptions(options))
  /\ UNCHANGED <<oracle, result, fault>>

\* its second statement: return matcher.matchNameGroup(nameGroup)
IndexMatchGroupCall ==
  /\ pc = "constructed"
  /\ op = "index.matchGroup"
  /\ pc' = "returned"
  /\ fault' = FaultIf(matchNameGroupThrows(args))
  /\ result' = IF matchNameGroupThrows(args) THEN NoResult
                ELSE matchNameGroup(args)
  /\ UNCHANGED <<configured, threshold, oracle, op, args>>

\* the caller takes the result and is ready for the next call
Return ==
  /\ pc = "returned"
  /\ pc' = "idle"
  /\ op' = "none"
  /\ args' = <<>>
  /\ result' = NoResult
  /\ fault' = "none"
  /\ UNCHANGED <<configured, threshold, oracle>>

\* the caller keeps the outcome of the call and is ready for the next call
KeepResult ==
  /\ pc = "returned"
  /\ pc' = "idle"
  /\ UNCHANGED <<configured, threshold, oracle, op, args, result, fault>>

Next ==
  \/ \E options \in ThresholdOptions : Construct(options)
  \/ \E name1, name2 \in Names : GetSimilarity(name1, name2)
  \/ \E name1, name2 \in Names : IsMatch(name1, name2)
  \/ \E nameGroup \in Groups : MatchNameGroup(nameGroup)
  \/ \E name1, name2 \in Names : StructuralGetSimilarity(name1, name2)
  \/ \E nameGroup \in Groups : StructuralMatchNameGroup(nameGroup)
  \/ Return

Spec == Init /\ [][Next]_vars

\* a caller of the name normalizer module
NormalizerNext ==
  \/ \E name \in NormalizerNames : ParseName(name)
  \/ \E name \in NormalizerNames : StandardizeName(name)
  \/ \E name \in NormalizerNames : GetNameVariations(name)
  \/ \E name \in NormalizerNames : NormalizeNameOrder(name)
  \/ Return

NormalizerSpec == Init /\ [][NormalizerNext]_vars

\* a caller of the structural matcher (EnhancedMatcher) on its own
StructuralNext ==
  \/ \E name \in NormalizerNames : NormalizeNameForComparison(name)
  \/ \E name1, name2 \in StructuralNames \cup NicknameNames :
       StructuralGetSimilarity(name1, name2)
  \/ Return

StructuralSpec == Init /\ [][StructuralNext]_vars

\* a caller of the strategies of the structural matcher
StrategyNext ==
  \/ \E name1, name2 \in Structures : EditDistanceScore(name1, name2)
  \/ \E name1, name2 \in Structures : InitialsMatchScore(name1, name2)
  \/ Return

StrategySpec == Init /\ [][StrategyNext]_vars

\* a caller that calls one matcher again and again, keeping the last outcome
RepeatNext ==
  \/ \E name1, name2 \in RepeatedNames : GetSimilarity(name1, name2)
  \/ \E name1, name2 \in RepeatedNames : IsMatch(name1, name2)
  \/ \E nameGroup \in RepeatedGroups : MatchNameGroup(nameGroup)
  \/ KeepResult

RepeatSpec == Init /\ [][RepeatNext]_vars

\* a caller of matchNameGroup on groups of two names and of the wrappers of
\* the package index; the matcher of the state is the last one constructed
WrapperNext ==
  \/ \E nameGroup \in PairGroups : MatchNameGroup(nameGroup)
  \/ \E name1, name2 \in WrapperNames, options \in WrapperOptions :
       IndexMatch(name1, name2, options)
  \/ \E name1, name2 \in WrapperNames, options \in WrapperOptions :
       IndexIsMatch(name1, name2, options)
  \/ \E nameGroup \in PairGroups, options \in WrapperOptions :
       IndexMatchGroup(nameGroup, options)
  \/ IndexMatchCall
  \/ IndexIsMatchCall
  \/ IndexMatchGroupCall
  \/ Return

WrapperSpec == Init /\ [][WrapperNext]_vars

(***************************************************************************)
(* Properties                                                              *)
(***************************************************************************)
Returned(opName) == pc = "returned" /\ op = opName

\* 0 <= x <= 1
InUnit(x) == Geq(x, Zero) /\ Leq(x, One)

\* r is a multiple of 0.01 and no further than 0.005 from x
IsRounding2(r, x) ==
  /\ ~IsNaN(r)
  /\ 100 % r.d = 0
  /\ Leq(r, Add(x, Rat(1, 200)))
  /\ Leq(x, Add(r, Rat(1, 200)))

\* the two arguments are strings, not empty, and differ
Scored(name1, name2) == ~Falsy(name1) /\ ~Falsy(name2) /\ name1 # name2

\* the threshold the caller configured: options.threshold, 0.75 by default
ConfiguredThreshold == IF configured.given THEN configured.value ELSE Rat(3, 4)

\* C1 as stated: for every string s, the empty string included, the combined
\* getSimilarity(s, s) returns exactly 1.
C1_IdenticalStringsScoreOne ==
  (Returned("getSimilarity") /\ args[1].type = "string" /\ args[1] = args[2])
    => (fault = "none" /\ result = One)

\* C1 as amended: for every non-empty string s, the combined
\* getSimilarity(s, s) returns exactly 1 (for the empty string it returns 0).
C1_IdenticalNonEmptyScoreOne ==
  (Returned("getSimilarity") /\ ~Falsy(args[1]) /\ args[1] = args[2])
    => (fault = "none" /\ result = One)

\* C1 witness: getSimilarity('Dr.', 'Dr.') has returned 1.
C1_Witness ==
  Returned("getSimilarity") /\ args = <<DrOnly, DrOnly>> /\ fault = "none" /\ result = One

\* C2: the combined getSimilarity(a, b) returns exactly 0, without raising,
\* whenever either argument is null, undefined or the empty string.
C2_FalsyScoresZero ==
  (Returned("getSimilarity") /\ (Falsy(args[1]) \/ Falsy(args[2])))
    => (fault = "none" /\ result = Zero)

\* C2 witness: getSimilarity('', '') has returned 0.
C2_Witness ==
  Returned("getSimilarity") /\ args = <<EmptyString, EmptyString>> /\ result = Zero

\* C3 as stated: for a matcher constructed with any configured threshold t
\* (t = 0 included, 0.75 when none is given), isMatch(a, b) is true exactly
\* when getSimilarity(a, b) >= t.
C3_IsMatchIffAtLeastConfigured ==
  (Returned("isMatch") /\ fault = "none")
    => (result = Geq(getSimilarity(args[1], args[2]), ConfiguredThreshold))

\* C4 as stated: the combined getSimilarity returns a number without raising
\* a fault for every pair of non-empty, non-identical strings, degenerate
\* names that leave no first name included.
C4_GetSimilarityNeverRaises ==
  (Returned("getSimilarity") /\ Scored(args[1], args[2])) => fault = "none"

\* C5: symmetry. The combined getSimilarity(a, b) and the structural
\* getSimilarity(a, b) end as the call with the arguments swapped ends (the
\* same score, or both raise), and so does each of the four strategies.
C5_Symmetric ==
  /\ Returned("getSimilarity") =>
       /\ (fault = "TypeError") = getSimilarityThrows(args[2], args[1])
       /\ fault = "none" => result = getSimilarity(args[2], args[1])
  /\ Returned("EnhancedMatcher.getSimilarity") =>
       /\ (fault = "TypeError") = EnhancedGetSimilarityThrows(args[2], args[1])
       /\ fault = "none" =>
            /\ result = EnhancedGetSimilarity(args[2], args[1])
            /\ \A s1 \in {normalizeNameForComparison(args[1])},
                  s2 \in {normalizeNameForComparison(args[2])} :
                 /\ exactMatchScore(s1, s2) = exactMatchScore(s2, s1)
                 /\ tokenSetScore(s1, s2) = tokenSetScore(s2, s1)
                 /\ initialsMatchScore(s1, s2) = initialsMatchScore(s2, s1)
                 /\ editDistanceScore(s1, s2) = editDistanceScore(s2, s1)

\* C5 witness: the structural getSimilarity('John', 'Dr. John Smith Jr.') has
\* returned a score strictly between 0 and 1.
C5_Witness ==
  /\ Returned("EnhancedMatcher.getSimilarity")
  /\ args = <<John, DrJohnSmithJr>>
  /\ fault = "none"
  /\ result # Zero
  /\ result # One

\* C6: score range. A score returned by the structural getSimilarity lies in
\* [0,1]; with natural scores in [0,1], so do a score returned by the combined
\* getSimilarity and the group score returned by matchNameGroup.
C6_ScoreRange ==
  fault = "none" =>
    /\ Returned("EnhancedMatcher.getSimilarity") => InUnit(result)
    /\ Returned("getSimilarity") => InUnit(result)
    /\ Returned("matchNameGroup") => InUnit(result.score)

\* C6 witness: matchNameGroup on three names has returned a group score
\* strictly between 0 and 1.
C6_Witness ==
  /\ Returned("matchNameGroup")
  /\ Len(args) = 3
  /\ fault = "none"
  /\ result.score # Zero
  /\ result.score # One

\* C7: for two non-empty, non-identical names the combined getSimilarity is
\* the arithmetic mean of the natural score and the structural score of the
\* same two raw strings, rounded to 2 decimal places, neither score being
\* rounded before the average.
C7_RoundedMeanOfBothScores ==
  (Returned("getSimilarity") /\ fault = "none" /\ Scored(args[1], args[2]))
    => IsRounding2(result,
                   DivInt(Add(getNaturalScore(args[1], args[2]),
                              EnhancedGetSimilarity(args[1], args[2])), 2))

\* C7 witness: a combined score has been returned that differs from the
\* unrounded mean of the two scores.
C7_Witness ==
  /\ Returned("getSimilarity")
  /\ fault = "none"
  /\ Scored(args[1], args[2])
  /\ result # DivInt(Add(getNaturalScore(args[1], args[2]),
                         EnhancedGetSimilarity(args[1], args[2])), 2)

\* C8: the combined matchNameGroup on a group of size 0 or 1 returns
\* {score: 1, matches: [], isMatch: true}, whatever the threshold and the name.
C8_TrivialGroup ==
  (Returned("matchNameGroup") /\ Len(args) <= 1)
    => /\ fault = "none"
       /\ result = [score |-> One, matches |-> <<>>, isMatch |-> TRUE]

\* C8 witness: matchNameGroup(['Dr.']) has returned under a threshold of 1.5.
C8_Witness ==
  /\ Returned("matchNameGroup")
  /\ args = <<DrOnly>>
  /\ threshold = Rat(3, 2)
  /\ fault = "none"

\* the place in matches of the index pair (i, j), i < j, of a group of n names
PairPlace(i, j, n) == (i - 1) * n - ((i - 1) * i) \div 2 + (j - i)

\* C9: for a group of n >= 2 names, matches has exactly n(n-1)/2 entries, one
\* per index pair i < j, ordered by ascending i and then ascending j, each
\* with name1 = names[i], name2 = names[j] and similarity = the combined
\* getSimilarity(names[i], names[j]).
C9_MatchesPerPairInOrder ==
  (Returned("matchNameGroup") /\ fault = "none" /\ Len(args) >= 2)
    => /\ 2 * Len(result.matches) = Len(args) * (Len(args) - 1)
       /\ \A i, j \in DOMAIN args :
            i < j =>
              result.matches[PairPlace(i, j, Len(args))] =
                [name1 |-> args[i], name2 |-> args[j],
                 similarity |-> getSimilarity(args[i], args[j])]

\* C9 witness: matchNameGroup on three different names has returned its
\* three matches.
C9_Witness ==
  /\ Returned("matchNameGroup")
  /\ args = <<JohnSmith, SmithCommaJohn, JamesSmith>>
  /\ fault = "none"
  /\ Len(result.matches) = 3

\* C10: for a group of n >= 2 names, matchNameGroup's score is the arithmetic
\* mean of all pairwise combined similarities rounded to 2 decimals, and its
\* isMatch is true exactly when that rounded score >= the matcher's threshold.
C10_GroupScoreAndVerdict ==
  (Returned("matchNameGroup") /\ fault = "none" /\ Len(args) >= 2)
    => /\ IsRounding2(result.score,
                      DivInt(TotalScore(result.matches), Len(result.matches)))
       /\ result.isMatch = Geq(result.score, threshold)

\* C10 witness: a group of three names has matched with a score that differs
\* from the unrounded mean of its pairwise similarities.
C10_Witness ==
  /\ Returned("matchNameGroup")
  /\ Len(args) = 3
  /\ fault = "none"
  /\ result.isMatch
  /\ result.score # DivInt(TotalScore(result.matches), Len(result.matches))

\* the properties of a ParsedName
ParsedNameFields ==
  { "original", "cleaned", "normalized", "prefixes", "firstName",
    "middleNames", "lastName", "suffixes", "initials" }

\* C11 as stated: parseName on null, undefined or '' returns a ParsedName-shaped
\* value: every ParsedName field is present, original, firstName and lastName
\* are '', and prefixes, suffixes and middleNames are empty sequences.
C11_FalsyParsesToEmptyParsedName ==
  (Returned("parseName") /\ Falsy(args[1]))
    => /\ DOMAIN result = ParsedNameFields
       /\ result.original = <<>>
       /\ result.firstName = <<>>
       /\ result.lastName = <<>>
       /\ result.prefixes = <<>>
       /\ result.suffixes = <<>>
       /\ result.middleNames = <<>>

\* C12 as stated: on null, undefined or '' the operations standardizeName,
\* getNameVariations and normalizeNameOrder return without raising, the first
\* and the last an empty string, the second a sequence of strings.
C12_DerivedOperationsTotalOnFalsy ==
  /\ (Returned("standardizeName") /\ Falsy(args[1]))
       => (fault = "none" /\ result = EmptyString)
  /\ (Returned("getNameVariations") /\ Falsy(args[1])) => fault = "none"
  /\ (Returned("normalizeNameOrder") /\ Falsy(args[1]))
       => (fault = "none" /\ result = EmptyString)

\* C13: reordering invariance. For comma-free segments A and B,
\* parseName("A, B").normalized = parseName("B A").normalized; for
\* "Smith, John" and for "John Smith" it is "john smith".
C13_ReorderingInvariance ==
  Returned("parseName") =>
    /\ \A A, B \in Segments :
         args[1] = CommaForm(A, B) =>
           result.normalized = parseName(SpaceForm(A, B)).normalized
    /\ args[1] \in {SmithCommaJohn, JohnSmith} =>
         result.normalized = LowerJohnSmith.val

\* C13 witness: parseName("Smith, John") has returned with normalized =
\* "john smith".
C13_Witness ==
  /\ Returned("parseName")
  /\ args = <<SmithCommaJohn>>
  /\ result.normalized = LowerJohnSmith.val

\* the tokens of a normalized string: its space-separated parts, '' left out
TokensOf(normalized) == SelectSeq(Split(normalized, " "), NonEmpty)

InPrefixSet(token) == \E i \in DOMAIN PREFIXES : PREFIXES[i] = token

InSuffixSet(token) == \E i \in DOMAIN SUFFIXES : SUFFIXES[i] = token

InNeitherSet(token) == ~InPrefixSet(token) /\ ~InSuffixSet(token)

\* C14: for a non-empty input, firstName, middleNames, lastName (in that
\* order, '' standing for none) are exactly the tokens of normalized that are
\* in neither the prefix nor the suffix set, in their order; prefixes and
\* suffixes are exactly the tokens in the prefix set and in the suffix set, in
\* their order; no first, middle or last name is in either set.
C14_NamePartsPartitionMainTokens ==
  (Returned("parseName") /\ ~Falsy(args[1]))
    => /\ SelectSeq(<<result.firstName>> \o result.middleNames
                      \o <<result.lastName>>, NonEmpty)
            = SelectSeq(TokensOf(result.normalized), InNeitherSet)
       /\ result.prefixes = SelectSeq(TokensOf(result.normalized), InPrefixSet)
       /\ result.suffixes = SelectSeq(TokensOf(result.normalized), InSuffixSet)
       /\ \A i \in DOMAIN result.middleNames :
            InNeitherSet(result.middleNames[i])
       /\ InNeitherSet(result.firstName)
       /\ InNeitherSet(result.lastName)

\* C14 witness: parseName("Dr. John William Smith Jr.") has returned a first,
\* a middle and a last name, a prefix and a suffix.
C14_Witness ==
  /\ Returned("parseName")
  /\ args = <<DrJohnWilliamSmithJr>>
  /\ result.prefixes = <<<<"d", "r">>>>
  /\ result.firstName = <<"j", "o", "h", "n">>
  /\ result.middleNames = <<<<"w", "i", "l", "l", "i", "a", "m">>>>
  /\ result.lastName = <<"s", "m", "i", "t", "h">>
  /\ result.suffixes = <<<<"j", "r">>>>

\* C15 as stated: for comma-form input, cleaned is the cleaned input in its
\* original order and normalized the reordered form;
\* parseName('Smith, John William Jr.') has cleaned = 'smith john william jr',
\* normalized = 'john william smith', firstName 'john', middleNames
\* ['william'], lastName 'smith', suffixes ['jr'].
C15_CommaFormCleanedKeepsInputOrder ==
  /\ (Returned("parseName") /\ ~Falsy(args[1]) /\ Includes(args[1].val, ","))
       => result.cleaned = cleanName(args[1])
  /\ (Returned("parseName") /\ args[1] = SmithCommaJohnWilliamJr)
       => /\ result.cleaned =
               <<"s", "m", "i", "t", "h", " ", "j", "o", "h", "n", " ",
                  "w", "i", "l", "l", "i", "a", "m", " ", "j", "r">>
          /\ result.normalized =
               <<"j", "o", "h", "n", " ", "w", "i", "l", "l", "i", "a", "m", " ", "s", "m", "i", "t", "h">>
          /\ result.firstName = <<"j", "o", "h", "n">>
          /\ result.middleNames = <<<<"w", "i", "l", "l", "i", "a", "m">>>>
          /\ result.lastName = <<"s", "m", "i", "t", "h">>
          /\ result.suffixes = <<<<"j", "r">>>>

\* " smith"
SpaceSmith == <<" ", "s", "m", "i", "t", "h">>

\* the names in arr with " smith" appended
WithSmith(arr) == [k \in DOMAIN arr |-> arr[k] \o SpaceSmith]

\* C16: nickname closure. For "f smith" with f a formal name of the nickname
\* table, getNameVariations returns a duplicate-free sequence that starts with
\* the standardized name "f smith", followed by "n smith" for every nickname n
\* of f in table order; for "William Smith" it is exactly
\* ['william smith', 'will smith', 'bill smith', 'billy smith', 'willy smith'].
C16_NicknameClosure ==
  Returned("getNameVariations") =>
    /\ \A i \in DOMAIN NAME_VARIATIONS :
         args[1] = Str(NAME_VARIATIONS[i][1] \o SpaceSmith) =>
           /\ fault = "none"
           /\ Cardinality(Range(result)) = Len(result)
           /\ result[1] = standardizeName(args[1])
           /\ Len(result) >= 1 + Len(NAME_VARIATIONS[i][2])
           /\ SubSeq(result, 1, 1 + Len(NAME_VARIATIONS[i][2]))
                = WithSmith(<<NAME_VARIATIONS[i][1]>> \o NAME_VARIATIONS[i][2])
    /\ args[1] = WilliamSmith =>
         /\ fault = "none"
         /\ result = WithSmith(<< <<"w", "i", "l", "l", "i", "a", "m">>,
                                  <<"w", "i", "l", "l">>,
                                  <<"b", "i", "l", "l">>,
                                  <<"b", "i", "l", "l", "y">>,
                                  <<"w", "i", "l", "l", "y">> >>)

\* C16 witness: getNameVariations("William Smith") has returned five names.
C16_Witness ==
  /\ Returned("getNameVariations")
  /\ args = <<WilliamSmith>>
  /\ fault = "none"
  /\ Len(result) = 5

\* both names have a first and a last name, and they are the same
SameFirstAndLast(parsed1, parsed2) ==
  /\ parsed1.firstName # <<>>
  /\ parsed1.lastName # <<>>
  /\ parsed1.firstName = parsed2.firstName
  /\ parsed1.lastName = parsed2.lastName

\* the structural getSimilarity has returned a score for two strings
StructuralScored ==
  /\ Returned("EnhancedMatcher.getSimilarity")
  /\ fault = "none"
  /\ ~Falsy(args[1])
  /\ ~Falsy(args[2])

\* C17: for two names whose parsed firstName and lastName are non-empty and
\* pairwise equal, a score returned by the structural getSimilarity is at
\* least 0.9, whatever their middle names, prefixes and suffixes.
C17_SameFirstAndLastScoreAtLeastNineTenths ==
  (StructuralScored /\ SameFirstAndLast(parseName(args[1]), parseName(args[2])))
    => Geq(result, Rat(9, 10))

\* C17 witness: the structural getSimilarity('Rev John Smith', 'John Smith')
\* has returned 0.9.
C17_Witness ==
  /\ StructuralScored
  /\ args = <<RevJohnSmith, JohnSmith>>
  /\ result = Rat(9, 10)

InStopwords(token) == \E i \in DOMAIN stopwords : stopwords[i] = token

\* a word that is no stopword and that the name normalizer classifies neither
\* as a prefix nor as a suffix
IsPlainWord(token) == ~InStopwords(token) /\ InNeitherSet(token)

\* the set of plain words of a name
PlainWords(name) ==
  Range(SelectSeq(TokensOf(parseName(name).normalized), IsPlainWord))

\* C18 as stated: for two names that consist of the same set of non-stopword,
\* non-prefix, non-suffix words, in any order and with or without a comma, the
\* structural getSimilarity is exactly 1.
C18_SameWordsAnyOrderScoreOne ==
  (StructuralScored /\ PlainWords(args[1]) # {}
     /\ PlainWords(args[1]) = PlainWords(args[2]))
    => result = One

\* C19: the structural getSimilarity returns the maximum of the four strategy
\* scores of the two normalized structures: one of the four, not less than
\* any of them, neither averaged nor rounded.
C19_BestOfFourStrategies ==
  (Returned("EnhancedMatcher.getSimilarity") /\ fault = "none") =>
    \A s1 \in {normalizeNameForComparison(args[1])},
       s2 \in {normalizeNameForComparison(args[2])} :
      /\ result \in { exactMatchScore(s1, s2), tokenSetScore(s1, s2),
                      initialsMatchScore(s1, s2), editDistanceScore(s1, s2) }
      /\ Geq(result, exactMatchScore(s1, s2))
      /\ Geq(result, tokenSetScore(s1, s2))
      /\ Geq(result, initialsMatchScore(s1, s2))
      /\ Geq(result, editDistanceScore(s1, s2))

\* C19 witness: the structural getSimilarity has returned a score that is not
\* a multiple of 0.01, the edit-distance score of the two names.
C19_Witness ==
  /\ StructuralScored
  /\ result.d > 0
  /\ 100 % result.d # 0
  /\ result = editDistanceScore(normalizeNameForComparison(args[1]),
                                normalizeNameForComparison(args[2]))

\* C20 as stated: the tokens of a structure are the non-empty tokens of
\* normalized without the stopwords and without the tokens the name
\* normalizer classifies as a prefix or a suffix; hence every token is the
\* structure's firstName, its lastName or one of its middleNames.
C20_TokensAreThePlainWords ==
  (Returned("normalizeNameForComparison") /\ fault = "none") =>
    /\ result.tokens = SelectSeq(TokensOf(result.normalized), IsPlainWord)
    /\ \A i \in DOMAIN result.tokens :
         \/ result.tokens[i] = result.firstName
         \/ result.tokens[i] = result.lastName
         \/ \E k \in DOMAIN result.middleNames :
              result.tokens[i] = result.middleNames[k]

\* C21 as stated: the edit-distance strategy returns 1 - (Levenshtein distance
\* of the two normalized strings / the larger of their lengths); it yields 1
\* when both normalized strings are empty and 0 when exactly one is empty.
C21_EditDistanceScore ==
  Returned("editDistanceScore") =>
    \A str1 \in {args[1].normalized}, str2 \in {args[2].normalized} :
      result = IF str1 = <<>> /\ str2 = <<>> THEN One
               ELSE IF str1 = <<>> \/ str2 = <<>> THEN Zero
               ELSE Rat(MaxInt(Len(str1), Len(str2)) - Levenshtein(str1, str2),
                        MaxInt(Len(str1), Len(str2)))

\* the first characters of two names match: both names are empty, or neither
\* is and they start with the same character
InitialsMatch(s1, s2) ==
  \/ s1 = <<>> /\ s2 = <<>>
  \/ s1 # <<>> /\ s2 # <<>> /\ s1[1] = s2[1]

C23_TextAfterSecondCommaIsDropped ==
  Returned("parseName") =>
    /\ \A A, B \in Segments, C \in Tails :
         args[1] = TwoCommaForm(A, B, C) =>
           \A field \in ParsedNameFields \ {"original"} :
             result[field] = parseName(SpaceForm(A, B))[field]
    /\ args[1] = SmithCommaJohnCommaJr =>
         /\ result.normalized = LowerJohnSmith.val
         /\ result.suffixes = <<>>

\* C23 witness: parseName("Smith, John, Jr.") has returned with normalized =
\* "john smith" and without a suffix.
C23_Witness ==
  /\ Returned("parseName")
  /\ args = <<SmithCommaJohnCommaJr>>
  /\ args[1] = TwoCommaForm(<<"S", "m", "i", "t", "h">>, <<"J", "o", "h", "n">>,
                            <<"J", "r", ".">>)
  /\ result.normalized = LowerJohnSmith.val
  /\ result.suffixes = <<>>

WithVariations(structure, variations) ==
  [original |-> EmptyString,
   normalized |-> structure.normalized,
   tokens |-> structure.tokens,
   firstName |-> structure.firstName,
   middleNames |-> <<>>,
   lastName |-> structure.lastName,
   initials |-> <<>>,
   firstNameVariations |-> variations]

\* what firstNameVariations is with an empty nickname table, with nothing in
\* it, and with a nickname of every first name in it
OtherVariations(structure) ==
  { <<>>, <<structure.firstName>>,
    <<structure.firstName, <<"b", "o", "b">>, <<"r", "o", "b", "e", "r", "t">> >> }

C26_GroupAgreesWithPairwise ==
  /\ ((Returned("matchNameGroup") \/ Returned("index.matchGroup")) /\ Len(args) = 2)
       => \A a \in {args[1]}, b \in {args[2]} :
            /\ (fault = "TypeError") = getSimilarityThrows(a, b)
            /\ fault = "none" =>
                 /\ result.score = getSimilarity(a, b)
                 /\ result.matches =
                      << [name1 |-> a, name2 |-> b,
                          similarity |-> getSimilarity(a, b)] >>
                 /\ result.isMatch = isMatch(a, b)
  /\ (Returned("index.match") \/ Returned("index.isMatch"))
       => /\ (fault = "TypeError") = matchNameGroupThrows(args)
          /\ threshold = constructorThreshold(configured)
          /\ (fault = "none" /\ op = "index.match") =>
               result = matchNameGroup(args).score
          /\ (fault = "none" /\ op = "index.isMatch") =>
               result = matchNameGroup(args).isMatch

\* C26 witness: the wrapper matchGroup, called without options, has returned
\* for "John Smith" and "James Smith" a result with one matches entry whose
\* score is between 0 and 1, under the default threshold 0.75.
C26_Witness ==
  /\ Returned("index.matchGroup")
  /\ fault = "none"
  /\ args = <<JohnSmith, JamesSmith>>
  /\ configured = Given(Rat(3, 4))
  /\ Len(result.matches) = 1
  /\ result.score # Zero
  /\ result.score # One

=============================================================================
